---- MODULE Spec2Model ----
(***************************************************************************)
(* A model of the XBRL extractor: the instance parser and the XbrlDb       *)
(* batch writer (src/src/xbrl_extract/instance.py) and the schema deriver, *)
(* row assembler and extract orchestrator (src/src/xbrl_extract/xbrl.py).  *)
(*                                                                         *)
(* Python values are modelled as tagged tuples so that a table cell can    *)
(* hold None, a string or an integer: None is <<>>, Str(s) is <<"str", s>> *)
(* and Num(i) is <<"int", i>>.  A Python dict, which keeps insertion       *)
(* order, is a sequence of <<key, value>> pairs when its order is          *)
(* observable (context_dict, fact_dict) and a TLA+ function otherwise.     *)
(* A raised exception is a record with raised = TRUE.                      *)
(***************************************************************************)
EXTENDS Integers, Sequences, FiniteSets, Bags, TLC

VARIABLES
    doc,             \* the instance document handed to parse / process_instance
    parsed,          \* what parse returned for doc (NotCalled before the call)
    schedule,        \* the taxonomy role a table schema is derived from
    gen_filing_id,   \* extract's gen_filing_id argument
    frame,           \* what construct_dataframe returned (NotCalled before the call)
    batch_size,      \* XbrlDb.batch_size / extract's batch_size argument
    num_instances,   \* XbrlDb.num_instances
    instances,       \* the per-instance dataframe dicts handed to XbrlDb
    db_dfs,          \* XbrlDb.dfs
    counter,         \* XbrlDb.counter
    flushed,         \* whether the last append_instance call wrote to the store
    store,           \* the SQL store: table name -> the frames appended by to_sql
    instance_paths,  \* extract's instance_paths: a sequence of (document, i) pairs
    threads,         \* extract's threads argument (max_workers of the pool)
    futures,         \* the executor's futures, one per instance path
    completed,       \* the order in which the workers finished their instances
    pos,             \* how many results the "for dfs in results" loop has taken
    dfs,             \* the loop variable dfs of extract
    outcome          \* "running", "done" (extract returned) or "raised"

vars == <<doc, parsed, schedule, gen_filing_id, frame, batch_size, num_instances,
          instances, db_dfs, counter, flushed, store, instance_paths, threads,
          futures, completed, pos, dfs, outcome>>

-----------------------------------------------------------------------------
(* Bounds of the model. *)

MaxChildren == 3     \* children of the root element of a parsed document
MaxContexts == 2     \* contexts of a document handed to row assembly
MaxInstances == 3    \* instances of one run
MaxBatch == 3        \* largest batch_size
MaxThreads == 2      \* largest worker count

-----------------------------------------------------------------------------
(* Python values and ordered dicts. *)

None == <<>>
Str(s) == <<"str", s>>
Num(i) == <<"int", i>>

EmptyDict == <<>>
DictKeys(d) == {d[i][1] : i \in 1..Len(d)}
DictGet(d, k) == d[CHOOSE i \in 1..Len(d) : d[i][1] = k][2]
DictSet(d, k, v) ==
    IF k \in DictKeys(d)
    THEN [i \in 1..Len(d) |-> IF d[i][1] = k THEN <<k, v>> ELSE d[i]]
    ELSE Append(d, <<k, v>>)

\* dict.update / {**a, **b}: the entries of b override those of a.
Update(a, b) == b @@ a

Raised(error) == [raised |-> TRUE, error |-> error]

\* The sequences over S of length at most n.
RECURSIVE SeqsUpTo(_, _)
SeqsUpTo(S, n) ==
    IF n = 0 THEN {<<>>}
    ELSE LET shorter == SeqsUpTo(S, n - 1)
         IN shorter \cup {Append(s, x) : s \in {t \in shorter : Len(t) = n - 1}, x \in S}

-----------------------------------------------------------------------------
(* XML elements of an instance document.  A tag and a dimension attribute  *)
(* are <<prefix, local name>>; attrib is the element's attribute dict.     *)

Cid(n) == <<"c", n>>
Fid(n) == <<"f", n>>

ExplicitMember(axis, value) ==
    [tag |-> <<"xbrldi", "explicitMember">>, dimension |-> <<"ferc", axis>>,
     text |-> Str(value), children |-> <<>>]
TypedMember(axis, value) ==
    [tag |-> <<"xbrldi", "typedMember">>, dimension |-> <<"ferc", axis>>,
     text |-> None, children |-> <<[text |-> Str(value)]>>]

InstantPeriod(d) == [instant |-> Str(d)]
DurationPeriod(s, e) == [startDate |-> Str(s), endDate |-> Str(e)]

ContextElem(id, identifier, members, period) ==
    [tag |-> <<"xbrli", "context">>, attrib |-> [id |-> id],
     entity |-> [identifier |-> Str(identifier), segment |-> members],
     period |-> period]
FactElem(id, name, contextRef, text) ==
    [tag |-> <<"ferc", name>>, attrib |-> [id |-> id, contextRef |-> contextRef],
     text |-> text]
UnitElem == [tag |-> <<"xbrli", "unit">>, attrib |-> <<>>]

Document(schemaRef, children) == [schemaRef |-> schemaRef, children |-> children]

-----------------------------------------------------------------------------
(* instance.py: Period, Axis, Entity, Context, Fact. *)

Period_from_xml(elem) ==
    IF "instant" \in DOMAIN elem
    THEN [instant |-> TRUE, start_date |-> None, end_date |-> elem.instant]
    ELSE [instant |-> FALSE, start_date |-> elem.startDate, end_date |-> elem.endDate]

\* name.split(":")[1] if ":" in name else name
strip_prefix(name) == IF Len(name) > 1 THEN name[2] ELSE name[1]

Axis_from_xml(elem) ==
    IF elem.tag[2] = "explicitMember"
    THEN [name |-> strip_prefix(elem.dimension), value |-> elem.text,
          dimension_type |-> "EXPLICIT"]
    ELSE [name |-> strip_prefix(elem.dimension), value |-> elem.children[1].text,
          dimension_type |-> "TYPED"]

Entity_from_xml(elem) ==
    [identifier |-> elem.identifier,
     dimensions |-> [i \in 1..Len(elem.segment) |-> Axis_from_xml(elem.segment[i])]]

Context_from_xml(elem) ==
    [c_id |-> elem.attrib.id,
     entity |-> Entity_from_xml(elem.entity),
     period |-> Period_from_xml(elem.period)]

Fact_from_xml(elem) ==
    [name |-> elem.tag[2], c_id |-> elem.attrib.contextRef, value |-> elem.text]

-----------------------------------------------------------------------------
(* instance.py: parse.  One iteration of "for child in root.iterchildren()" *)
(* is ParseChild; parse folds it over the children in document order.      *)

FactAppendSkipsCheck(acc, new_fact) ==
    IF new_fact.c_id \in DictKeys(acc.fact_dict)
    THEN [acc EXCEPT !.fact_dict =
              DictSet(@, new_fact.c_id, Append(DictGet(@, new_fact.c_id), new_fact))]
    ELSE acc

\* fact_dict[new_fact.c_id].append(new_fact): a KeyError when the context id
\* has not been seeded by a context element seen so far.
FactAppend(acc, new_fact) ==
    IF new_fact.c_id \in DictKeys(acc.fact_dict)
    THEN [acc EXCEPT !.fact_dict =
              DictSet(@, new_fact.c_id, Append(DictGet(@, new_fact.c_id), new_fact))]
    ELSE Raised("KeyError") @@ acc

ParseChild(acc, child) ==
    IF acc.raised THEN acc
    ELSE IF "id" \notin DOMAIN child.attrib THEN acc
    ELSE IF Head(child.attrib.id) = "c"
    THEN LET new_context == Context_from_xml(child)
         IN [acc EXCEPT
               !.context_dict = DictSet(@, new_context.c_id, new_context),
               !.fact_dict = DictSet(@, new_context.c_id, <<>>)]
    ELSE IF Head(child.attrib.id) = "f"
    THEN LET new_fact == Fact_from_xml(child)
         IN IF new_fact.value # None THEN FactAppend(acc, new_fact) ELSE acc
    ELSE acc

RECURSIVE ParseChildren(_, _, _)
ParseChildren(acc, children, i) ==
    IF i > Len(children) THEN acc
    ELSE ParseChildren(ParseChild(acc, children[i]), children, i + 1)

parse(d) ==
    IF d.schemaRef = None
    THEN [raised |-> TRUE, error |-> "AttributeError",
          context_dict |-> EmptyDict, fact_dict |-> EmptyDict, taxonomy_url |-> None]
    ELSE ParseChildren([raised |-> FALSE, error |-> "",
                        context_dict |-> EmptyDict, fact_dict |-> EmptyDict,
                        taxonomy_url |-> d.schemaRef],
                       d.children, 1)

-----------------------------------------------------------------------------
(* instance.py: Entity.check_dimensions, Context.check_dimensions and      *)
(* Context.get_context_ids.                                                 *)

SeqToSet(s) == {s[i] : i \in 1..Len(s)}

check_dimensions(entity, axes) ==
    IF Len(entity.dimensions) # Len(axes) THEN FALSE
    ELSE \A i \in 1..Len(entity.dimensions) : entity.dimensions[i].name \in SeqToSet(axes)

\* Context.check_dimensions, which construct_dataframe calls as context.in_axes.
in_axes(context, axes) == check_dimensions(context.entity, axes)

\* {axis.name: axis.value for axis in self.entity.dimensions}: the last
\* dimension of a name gives the value.
AxesDict(dimensions) ==
    [n \in {dimensions[i].name : i \in 1..Len(dimensions)} |->
        LET last == CHOOSE i \in 1..Len(dimensions) :
                        /\ dimensions[i].name = n
                        /\ \A j \in i+1..Len(dimensions) : dimensions[j].name # n
        IN dimensions[last].value]

DateDict(period) ==
    IF period.instant THEN [date |-> period.end_date]
    ELSE [start_date |-> period.start_date, end_date |-> period.end_date]

get_context_ids(context, filing_name) ==
    Update(Update([context_id |-> context.c_id,
                   entity_id |-> context.entity.identifier,
                   filing_name |-> filing_name],
                  DateDict(context.period)),
           AxesDict(context.entity.dimensions))

-----------------------------------------------------------------------------
(* The taxonomy objects get_fact_table reads (Concept, LinkRole). *)

Concept(name, type, child_concepts) ==
    [name |-> name, type |-> type, child_concepts |-> child_concepts]
LinkRole(definition, concepts) == [definition |-> definition, concepts |-> concepts]

-----------------------------------------------------------------------------
(* xbrl.py: DTYPE_MAP, get_fact_table, get_columns_from_table,             *)
(* get_cols_from_line_item.                                                 *)

DTYPE_MAP ==
    [String |-> "str", Decimal |-> "float64", GYear |-> "int64", Power |-> "float64",
     Integer |-> "int64", Monetary |-> "int64", PerUnit |-> "float64",
     Energy |-> "int64", Date |-> "str", FormType |-> "str", ReportPeriod |-> "str",
     Default |-> "str"]

\* name.endswith("LineItems"), on the concept names of the model.
EndsWithLineItems(name) == name \in {"BalanceLineItems", "FilingLineItems"}

RECURSIVE get_columns_from_table(_)
RECURSIVE UpdateFromItems(_, _, _)

get_cols_from_line_item(concept) ==
    IF Len(concept.child_concepts) > 0
    THEN get_columns_from_table(concept)
    ELSE LET dtype == IF concept.type \in DOMAIN DTYPE_MAP
                      THEN DTYPE_MAP[concept.type] ELSE DTYPE_MAP["Default"]
         IN concept.name :> dtype

\* "for item in concept.child_concepts: cols.update(get_cols_from_line_item(item))"
UpdateFromItems(cols, items, i) ==
    IF i > Len(items) THEN cols
    ELSE UpdateFromItems(Update(cols, get_cols_from_line_item(items[i])), items, i + 1)

get_columns_from_table(concept) == UpdateFromItems(<<>>, concept.child_concepts, 1)

RECURSIVE UpdateFromLineItems(_, _, _)
\* "for child_concept in root_concept.child_concepts: if ...endswith("LineItems")"
UpdateFromLineItems(columns, children, i) ==
    IF i > Len(children) THEN columns
    ELSE UpdateFromLineItems(
            IF EndsWithLineItems(children[i].name)
            THEN Update(columns, get_columns_from_table(children[i]))
            ELSE columns,
            children, i + 1)

IsAxis(concept) == concept.type = "Axis"

get_fact_table(role, gen) ==
    LET root_concept == role.concepts.child_concepts[1]
        axis_concepts == SelectSeq(root_concept.child_concepts, IsAxis)
        axes == [i \in 1..Len(axis_concepts) |-> axis_concepts[i].name]
        base == Update([context_id |-> "str", entity_id |-> "str", start_date |-> "str",
                        end_date |-> "str", instant |-> "bool8"],
                       [a \in SeqToSet(axes) |-> "str"])
        columns == IF gen THEN Update(base, [filing_id |-> "int"]) ELSE base
    IN [axes |-> axes,
        columns |-> UpdateFromLineItems(columns, root_concept.child_concepts, 1)]

-----------------------------------------------------------------------------
(* xbrl.py: construct_dataframe. *)

\* {fact.name: fact.value for fact in facts[c_id] if fact.name in cols}
FactRow(fact_list, cols) ==
    [n \in {fact_list[j].name : j \in 1..Len(fact_list)} \cap DOMAIN cols |->
        LET last == CHOOSE j \in 1..Len(fact_list) :
                        /\ fact_list[j].name = n
                        /\ \A k \in j+1..Len(fact_list) : fact_list[k].name # n
        IN fact_list[last].value]

\* The row dict of one context after row.update(get_context_ids(filing_id));
\* the empty dict when no fact of the context is a column ("if row:").
ContextRow(context, fact_list, cols, filing_id) ==
    LET row == FactRow(fact_list, cols)
    IN IF DOMAIN row = {} THEN row ELSE Update(row, get_context_ids(context, filing_id))

construct_dataframe(contexts, facts, table_info, filing_id) ==
    LET cols == table_info.columns
        axes == table_info.axes
        eligible == SelectSeq(contexts, LAMBDA pair : in_axes(pair[2], axes))
        max_len == Len(eligible)
        row(i) == ContextRow(eligible[i][2], DictGet(facts, eligible[i][1]), cols, filing_id)
        \* df[key][i] = val for the i-th context (None where nothing is written)
        df(i) == [key \in DOMAIN cols |->
                    IF key \in DOMAIN row(i) THEN row(i)[key] ELSE None]
        kept == {i \in 1..max_len : \E key \in DOMAIN cols : df(i)[key] # None}
        Nth(n) == CHOOSE i \in kept : Cardinality({j \in kept : j < i}) = n - 1
    IN IF \E i \in 1..max_len : ~(DOMAIN row(i) \subseteq DOMAIN cols)
       THEN [raised |-> TRUE, error |-> "KeyError", rows |-> <<>>]
       ELSE [raised |-> FALSE, error |-> "",
             rows |-> [n \in 1..Cardinality(kept) |->
                         [index |-> Nth(n) - 1,
                          row |-> [key \in DOMAIN cols \ {"context_id"} |-> df(Nth(n))[key]]]]]

-----------------------------------------------------------------------------
(* xbrl.py: process_instance.  tables is the ordered dict extract builds;  *)
(* the contexts and facts are the two dictionaries parse returns.          *)

RECURSIVE AssembleTables(_, _, _, _, _)
\* "for key, table in tables.items(): dfs[key] = construct_dataframe(...)"
AssembleTables(acc, p, tables, filing_id, k) ==
    IF k > Len(tables) THEN [raised |-> FALSE, error |-> "", dfs |-> acc]
    ELSE LET df == construct_dataframe(p.context_dict, p.fact_dict, tables[k][2], filing_id)
         IN IF df.raised THEN [raised |-> TRUE, error |-> df.error, dfs |-> EmptyDict]
            ELSE AssembleTables(DictSet(acc, tables[k][1], df.rows), p, tables,
                                filing_id, k + 1)

process_instance(instance, tables, gen) ==
    LET p == parse(instance[1])
        filing_id == IF gen THEN Num(instance[2]) ELSE None
    IN IF p.raised THEN [raised |-> TRUE, error |-> p.error, dfs |-> EmptyDict]
       ELSE AssembleTables(EmptyDict, p, tables, filing_id, 1)

-----------------------------------------------------------------------------
(* The taxonomy roles of the model.  A role's root concept holds its axes  *)
(* and its line items; FilingLineItems is a schedule whose line items      *)
(* include concepts named filing_name and date.                            *)

Leaf(name, type) == Concept(name, type, <<>>)
Role(definition, children) ==
    LinkRole(definition,
             Concept("root", "Abstract", <<Concept(definition, "Abstract", children)>>))

BalanceItems ==
    Concept("BalanceLineItems", "Abstract",
            <<Leaf("Assets", "Monetary"),
              Concept("LiabilitiesAbstract", "Abstract", <<Leaf("Liabilities", "Monetary")>>)>>)
FilingItems ==
    Concept("FilingLineItems", "Abstract",
            <<Leaf("Assets", "Monetary"), Leaf("filing_name", "String"),
              Leaf("date", "Date")>>)
UtilityAxis == Leaf("UtilityAxis", "Axis")
PlantAxis == Leaf("PlantAxis", "Axis")

RolePlain == Role("Plain", <<BalanceItems>>)
RoleAxis == Role("ByUtility", <<UtilityAxis, BalanceItems>>)
RoleAxisTwice == Role("ByUtilityTwice", <<UtilityAxis, UtilityAxis, FilingItems>>)
RoleFiling == Role("Filing", <<FilingItems>>)
RoleFilingAxes == Role("FilingByUtilityAndPlant", <<UtilityAxis, PlantAxis, FilingItems>>)
RoleEmpty == Role("Empty", <<UtilityAxis>>)

Roles == {RolePlain, RoleAxis, RoleAxisTwice, RoleFiling, RoleFilingAxes, RoleEmpty}

-----------------------------------------------------------------------------
(* The documents row assembly is applied to: up to MaxContexts contexts,   *)
(* each instant or a duration, with no dimension, one, the same one twice  *)
(* or two, and each with one fact: a line item, a fact named filing_name,  *)
(* or a fact no schedule lists.  The contexts come first, then the facts.  *)

DimensionLists ==
    {<<>>,
     <<ExplicitMember("UtilityAxis", "Electric")>>,
     <<ExplicitMember("UtilityAxis", "Electric"), ExplicitMember("UtilityAxis", "Gas")>>,
     <<ExplicitMember("UtilityAxis", "Electric"), TypedMember("PlantAxis", "P1")>>}
Periods == {InstantPeriod("2021-12-31"), DurationPeriod("2021-01-01", "2021-12-31")}
FactNames == {"Assets", "filing_name", "Unlisted"}

ContextChoices == DimensionLists \X Periods \X FactNames

RowDocument(choices) ==
    Document(Str("taxonomy.xsd"),
             [n \in 1..Len(choices) |->
                 ContextElem(Cid(n), "E1", choices[n][1], choices[n][2])]
             \o [n \in 1..Len(choices) |->
                 FactElem(Fid(n), choices[n][3], Cid(n), Str("10"))])

RowDocs == {RowDocument(choices) : choices \in SeqsUpTo(ContextChoices, MaxContexts)}

\* The index i of the (path, i) pair of the instance rows are assembled for.
FilingIndex == 1

-----------------------------------------------------------------------------
(* The documents parse is applied to: every sequence of at most MaxChildren *)
(* root children drawn from two contexts, facts that carry a value or not  *)
(* and refer to a context of the pool or to no context at all, and an      *)
(* element without an id.                                                   *)

ParseContexts ==
    {ContextElem(Cid(n), "E1", <<>>, InstantPeriod("2021-12-31")) : n \in 1..2}
ParseFacts ==
    {FactElem(Fid(1), "Assets", ref, text) :
        ref \in {Cid(1), Cid(9)}, text \in {None, Str("10")}}
ParseDocs ==
    {Document(ref, children) :
        ref \in {None, Str("taxonomy.xsd")},
        children \in SeqsUpTo(ParseContexts \cup ParseFacts \cup {UnitElem}, MaxChildren)}

-----------------------------------------------------------------------------
(* instance.py: XbrlDb.  An instance is the dict append_instance receives: *)
(* key -> (duration dataframe, instant dataframe), a dataframe being the   *)
(* sequence of its rows.  to_sql(name, engine, if_exists="append") appends  *)
(* the frame to the store's table of that name.                            *)

to_sql(st, name, df) ==
    Update(st, name :> Append(IF name \in DOMAIN st THEN st[name] ELSE <<>>, df))

\* pd.concat(frames, ignore_index=True)
RECURSIVE concat(_)
concat(frames) == IF frames = <<>> THEN <<>> ELSE Head(frames) \o concat(Tail(frames))

RECURSIVE AccumulateInstance(_, _, _)
\* lines 64-69: append each key's two dataframes to the lists kept for the key
AccumulateInstance(acc, instance, k) ==
    IF k > Len(instance) THEN acc
    ELSE LET key == instance[k][1]
             seeded == IF key \in DictKeys(acc) THEN acc
                       ELSE DictSet(acc, key, [duration |-> <<>>, instant |-> <<>>])
             lists == DictGet(seeded, key)
         IN AccumulateInstance(
                DictSet(seeded, key,
                        [duration |-> Append(lists.duration, instance[k][2][1]),
                         instant |-> Append(lists.instant, instance[k][2][2])]),
                instance, k + 1)

RECURSIVE WriteBatch(_, _, _)
\* lines 74-79: concatenate and write the lists of every key
WriteBatch(st, acc, k) ==
    IF k > Len(acc) THEN st
    ELSE WriteBatch(
            to_sql(to_sql(st, <<acc[k][1], "duration">>, concat(acc[k][2].duration)),
                   <<acc[k][1], "instant">>, concat(acc[k][2].instant)),
            acc, k + 1)

FlushDueOnFullBatchOnly(n, size, total) == n % size = 0

\* lines 71-73: the batch is finished, or this is the last instance
FlushDue(n, size, total) == (n % size = 0) \/ (n = total)

\* One call of append_instance, with the next instance of the run.
append_instance ==
    /\ counter <= num_instances
    /\ LET accumulated == AccumulateInstance(db_dfs, instances[counter], 1)
           due == FlushDue(counter, batch_size, num_instances)
       IN /\ db_dfs' = accumulated
          /\ store' = IF due THEN WriteBatch(store, accumulated, 1) ELSE store
          /\ flushed' = due
    /\ counter' = counter + 1
    /\ UNCHANGED <<doc, parsed, schedule, gen_filing_id, frame, batch_size,
                   num_instances, instances, instance_paths, threads, futures,
                   completed, pos, dfs, outcome>>

\* The instances handed to XbrlDb: every instance holds both dataframes of
\* every key; its rows are told apart by the instance, the key and a number.
DbKeys == <<"Balance", "Income">>
DbRow(i, key, n) == [instance |-> i, key |-> key, n |-> n]
DbInstance(i, shape) ==
    [k \in 1..Len(DbKeys) |->
        <<DbKeys[k],
          IF shape = "even"
          THEN <<<<DbRow(i, DbKeys[k], 1)>>, <<DbRow(i, DbKeys[k], 2)>>>>
          ELSE <<<<DbRow(i, DbKeys[k], 1), DbRow(i, DbKeys[k], 2)>>, <<>>>>>>]

-----------------------------------------------------------------------------
(* xbrl.py: extract.  The executor's map submits process_instance for      *)
(* every instance path at once; at most `threads` workers run the tasks,   *)
(* taking them in submission order, and finish them in any order.  The     *)
(* "for dfs in results" loop takes the results in submission order,        *)
(* waiting for the next one, and an exception of a task is raised there.   *)

Taxonomy == <<RoleFiling, RoleAxis>>

\* {role.definition: get_fact_table(role, gen_filing_id) for role in taxonomy.roles}
Tables(gen) ==
    [k \in 1..Len(Taxonomy) |-> <<Taxonomy[k].definition, get_fact_table(Taxonomy[k], gen)>>]

Reindex(rows) == [n \in 1..Len(rows) |-> [rows[n] EXCEPT !.index = n - 1]]

\* lines 59-64: dfs[key] = pd.concat([dfs[key], df], ignore_index=True), where
\* df is dfs[key] itself
MergeResult(result_dfs) ==
    [k \in 1..Len(result_dfs) |->
        <<result_dfs[k][1], Reindex(concat(<<result_dfs[k][2], result_dfs[k][2]>>))>>]

RECURSIVE WriteTables(_, _, _)
\* lines 66-68: df.to_sql(key, engine, if_exists='append') for every key of dfs
WriteTables(st, last_dfs, k) ==
    IF k > Len(last_dfs) THEN st
    ELSE WriteTables(to_sql(st, last_dfs[k][1], last_dfs[k][2]), last_dfs, k + 1)

Running == {i \in 1..Len(futures) : futures[i].state = "running"}
Pending == {i \in 1..Len(futures) : futures[i].state = "pending"}

\* A worker thread takes the oldest pending task.
WorkerStart ==
    /\ Pending # {}
    /\ Cardinality(Running) < threads
    /\ LET i == CHOOSE j \in Pending : \A k \in Pending : j <= k
       IN futures' = [futures EXCEPT ![i].state = "running"]
    /\ UNCHANGED <<doc, parsed, schedule, gen_filing_id, frame, batch_size,
                   num_instances, instances, db_dfs, counter, flushed, store,
                   instance_paths, threads, completed, pos, dfs, outcome>>

\* A worker thread finishes process_instance for its task.
WorkerFinish ==
    \E i \in Running :
        /\ futures' = [futures EXCEPT
               ![i] = [state |-> "finished",
                       result |-> process_instance(instance_paths[i],
                                                   Tables(gen_filing_id), gen_filing_id)]]
        /\ completed' = Append(completed, i)
        /\ UNCHANGED <<doc, parsed, schedule, gen_filing_id, frame, batch_size,
                       num_instances, instances, db_dfs, counter, flushed, store,
                       instance_paths, threads, pos, dfs, outcome>>

\* The loop body for the result that the mutant of the loop takes: the next
\* one to have finished, as concurrent.futures.as_completed would yield it.
NextResultAsCompleted == IF Len(completed) > pos THEN completed[pos + 1] ELSE 0

\* The result "for dfs in results" takes next: that of the next instance path
\* (0 while it has not finished).
NextResult ==
    IF pos < Len(futures) /\ futures[pos + 1].state = "finished" THEN pos + 1 ELSE 0

\* One iteration of "for dfs in results" and, after the last one, the write
\* of dfs to the store.
TakeResult ==
    /\ outcome = "running"
    /\ NextResult # 0
    /\ LET result == futures[NextResult].result
       IN IF result.raised
          THEN /\ outcome' = "raised"
               /\ futures' = [i \in 1..Len(futures) |->
                                IF futures[i].state = "pending"
                                THEN [futures[i] EXCEPT !.state = "cancelled"]
                                ELSE futures[i]]
               /\ UNCHANGED <<pos, dfs, store>>
          ELSE /\ pos' = pos + 1
               /\ dfs' = MergeResult(result.dfs)
               /\ IF pos + 1 = Len(futures)
                  THEN /\ store' = WriteTables(store, MergeResult(result.dfs), 1)
                       /\ outcome' = "done"
                  ELSE UNCHANGED <<store, outcome>>
               /\ UNCHANGED futures
    /\ UNCHANGED <<doc, parsed, schedule, gen_filing_id, frame, batch_size,
                   num_instances, instances, db_dfs, counter, flushed,
                   instance_paths, threads, completed>>

\* With no instance path the loop body never binds dfs, and line 66 raises
\* NameError.
NoResults ==
    /\ outcome = "running"
    /\ Len(futures) = 0
    /\ outcome' = "raised"
    /\ UNCHANGED <<doc, parsed, schedule, gen_filing_id, frame, batch_size,
                   num_instances, instances, db_dfs, counter, flushed, store,
                   instance_paths, threads, futures, completed, pos, dfs>>

\* The instance documents of a run: a duration context of entity E1 or E2
\* with an Assets fact; a document whose fact refers to no context (parse
\* raises); a document whose context carries the utility axis (assembling the
\* ByUtility table raises).
FilingDoc(entity, value) ==
    Document(Str("taxonomy.xsd"),
             <<ContextElem(Cid(1), entity, <<>>, DurationPeriod("2021-01-01", "2021-12-31")),
               FactElem(Fid(1), "Assets", Cid(1), Str(value))>>)
DanglingDoc ==
    Document(Str("taxonomy.xsd"),
             <<ContextElem(Cid(1), "E1", <<>>, DurationPeriod("2021-01-01", "2021-12-31")),
               FactElem(Fid(1), "Assets", Cid(9), Str("10"))>>)
UtilityDoc ==
    Document(Str("taxonomy.xsd"),
             <<ContextElem(Cid(1), "E1", <<ExplicitMember("UtilityAxis", "Electric")>>,
                           DurationPeriod("2021-01-01", "2021-12-31")),
               FactElem(Fid(1), "Assets", Cid(1), Str("10"))>>)
ExtractDocs == {FilingDoc("E1", "10"), FilingDoc("E2", "20"), DanglingDoc, UtilityDoc}

-----------------------------------------------------------------------------
(* Values of the variables a specification does not use. *)

NotCalled == [called |-> FALSE]
NoDoc == Document(None, <<>>)
NoSchedule == [definition |-> "none"]

IdleParse == doc = NoDoc /\ parsed = NotCalled
IdleRows == schedule = NoSchedule /\ frame = NotCalled
IdleDb ==
    /\ num_instances = 0 /\ instances = <<>> /\ db_dfs = <<>>
    /\ counter = 1 /\ flushed = FALSE
IdleExtract ==
    /\ instance_paths = <<>> /\ threads = 1 /\ futures = <<>> /\ completed = <<>>
    /\ pos = 0 /\ dfs = NotCalled /\ outcome = "idle"

-----------------------------------------------------------------------------
(* SpecParse: parse applied to one document. *)

InitParse ==
    /\ doc \in ParseDocs
    /\ parsed = NotCalled
    /\ IdleRows /\ IdleDb /\ IdleExtract
    /\ gen_filing_id = FALSE /\ batch_size = 1 /\ store = <<>>

Parse ==
    /\ parsed = NotCalled
    /\ parsed' = parse(doc)
    /\ UNCHANGED <<doc, schedule, gen_filing_id, frame, batch_size, num_instances,
                   instances, db_dfs, counter, flushed, store, instance_paths,
                   threads, futures, completed, pos, dfs, outcome>>

NextParse == Parse

SpecParse == InitParse /\ [][NextParse]_vars

-----------------------------------------------------------------------------
(* SpecRows: get_fact_table and construct_dataframe applied to the         *)
(* contexts and facts of one parsed document.                              *)

InitRows ==
    /\ doc \in RowDocs
    /\ schedule \in Roles
    /\ gen_filing_id \in BOOLEAN
    /\ parsed = NotCalled /\ frame = NotCalled
    /\ IdleDb /\ IdleExtract
    /\ batch_size = 1 /\ store = <<>>

Assemble ==
    /\ frame = NotCalled
    /\ LET p == parse(doc)
       IN /\ parsed' = p
          /\ frame' = construct_dataframe(p.context_dict, p.fact_dict,
                                          get_fact_table(schedule, gen_filing_id),
                                          IF gen_filing_id THEN Num(FilingIndex) ELSE None)
    /\ UNCHANGED <<doc, schedule, gen_filing_id, batch_size, num_instances,
                   instances, db_dfs, counter, flushed, store, instance_paths,
                   threads, futures, completed, pos, dfs, outcome>>

NextRows == Assemble

SpecRows == InitRows /\ [][NextRows]_vars

-----------------------------------------------------------------------------
(* SpecDb: an XbrlDb constructed for num_instances instances, to which the *)
(* instances of the run are appended one by one.                           *)

InitDb ==
    /\ batch_size \in 1..MaxBatch
    /\ num_instances \in 0..MaxInstances
    /\ instances \in {[i \in 1..num_instances |-> DbInstance(i, shape[i])] :
                        shape \in [1..num_instances -> {"even", "duration only"}]}
    /\ db_dfs = EmptyDict
    /\ counter = 1
    /\ flushed = FALSE
    /\ store = <<>>
    /\ IdleParse /\ IdleRows /\ IdleExtract
    /\ gen_filing_id = FALSE

NextDb == append_instance

SpecDb == InitDb /\ [][NextDb]_vars

-----------------------------------------------------------------------------
(* SpecExtract: one call of extract, from the point where every instance   *)
(* path has been submitted to the executor.                                *)

InitExtract ==
    /\ instance_paths \in {[i \in 1..Len(docs) |-> <<docs[i], i>>] :
                              docs \in SeqsUpTo(ExtractDocs, MaxInstances)}
    /\ batch_size \in {1, MaxBatch}
    /\ threads \in 1..MaxThreads
    /\ gen_filing_id \in BOOLEAN
    /\ futures = [i \in 1..Len(instance_paths) |-> [state |-> "pending", result |-> NotCalled]]
    /\ completed = <<>>
    /\ pos = 0
    /\ dfs = NotCalled
    /\ outcome = "running"
    /\ store = <<>>
    /\ IdleParse /\ IdleRows
    /\ num_instances = 0 /\ instances = <<>> /\ db_dfs = <<>>
    /\ counter = 1 /\ flushed = FALSE

NextExtract == WorkerStart \/ WorkerFinish \/ TakeResult \/ NoResults

SpecExtract == InitExtract /\ [][NextExtract]_vars

-----------------------------------------------------------------------------
(* Claims about parse (SpecParse). *)

IsContextElem(e) == e.tag = <<"xbrli", "context">>
IsFactElem(e) == "contextRef" \in DOMAIN e.attrib
ContextIds(d) ==
    {d.children[i].attrib.id : i \in {j \in 1..Len(d.children) : IsContextElem(d.children[j])}}
\* The fact elements of d whose contextRef is the id of no context element of d.
DanglingFacts(d) ==
    {i \in 1..Len(d.children) :
        /\ IsFactElem(d.children[i])
        /\ d.children[i].attrib.contextRef \notin ContextIds(d)}

\* C8 as claimed: parse fails whenever some fact element refers to a context id
\* that no context element of the document has, whatever the fact's text value
\* and wherever the fact stands.
C8_AnyDanglingFactIsFatal ==
    (parsed # NotCalled /\ DanglingFacts(doc) # {}) => parsed.raised

\* C8 as amended: parse fails whenever some fact element that carries a text
\* value refers to a context id that no context element of the document has,
\* wherever the fact stands.
C8_ValuedDanglingFactIsFatal ==
    (parsed # NotCalled
        /\ \E i \in DanglingFacts(doc) : doc.children[i].text # None)
    => parsed.raised

\* C8 witness: a document with a schema reference whose last child is a valued
\* fact with a dangling contextRef, standing after a context and a valueless
\* fact, has been parsed and the lookup of the fact's context raised.
C8_Witness ==
    /\ parsed # NotCalled
    /\ doc.schemaRef # None
    /\ Len(doc.children) = 3
    /\ IsContextElem(doc.children[1])
    /\ IsFactElem(doc.children[2]) /\ doc.children[2].text = None
    /\ 3 \in DanglingFacts(doc) /\ doc.children[3].text # None
    /\ parsed.raised /\ parsed.error = "KeyError"

-----------------------------------------------------------------------------
(* Claims about row assembly (SpecRows). *)

TableInfo == get_fact_table(schedule, gen_filing_id)
Assembled == frame # NotCalled

\* The axis names on the entity of a context, as a set.
AxisNames(context) ==
    {context.entity.dimensions[i].name : i \in 1..Len(context.entity.dimensions)}

\* Whether some fact recorded for context id c_id is named like a column.
HasColumnFact(c_id) ==
    \E j \in 1..Len(DictGet(parsed.fact_dict, c_id)) :
        DictGet(parsed.fact_dict, c_id)[j].name \in DOMAIN TableInfo.columns

\* The frame's index labels are the positions of the contexts among those the
\* axis filter retained: the row labelled n belongs to the (n+1)-th of them.
RetainedBefore(k) ==
    Cardinality({j \in 1..k-1 : in_axes(parsed.context_dict[j][2], TableInfo.axes)})
RowEmittedFor(k) ==
    /\ ~frame.raised
    /\ in_axes(parsed.context_dict[k][2], TableInfo.axes)
    /\ \E n \in 1..Len(frame.rows) : frame.rows[n].index = RetainedBefore(k)

\* C3: when row assembly returns a table, a context has a row in it if and
\* only if the set of axis names on its entity equals the set of the table's
\* axes and one of its facts is named like a column of the table.
C3_RowIffAxisSetEqualAndFact ==
    (Assembled /\ ~frame.raised) =>
        \A k \in 1..Len(parsed.context_dict) :
            RowEmittedFor(k) <=>
                /\ AxisNames(parsed.context_dict[k][2]) = SeqToSet(TableInfo.axes)
                /\ HasColumnFact(parsed.context_dict[k][1])

\* The columns that identify a row: entity, filing, dates and the axes.
KeyColumns ==
    {"entity_id", "filing_name", "filing_id", "date", "start_date", "end_date"}
        \cup SeqToSet(TableInfo.axes)
PrimaryKey(row) ==
    [key \in DOMAIN row \cap (KeyColumns \ {"filing_id"}) |-> row[key]]

C10_RowKeysAreColumns ==
    Assembled =>
        /\ ~frame.raised
        /\ \A k \in 1..Len(parsed.context_dict) :
              in_axes(parsed.context_dict[k][2], TableInfo.axes) =>
                  DOMAIN ContextRow(parsed.context_dict[k][2],
                                    DictGet(parsed.fact_dict, parsed.context_dict[k][1]),
                                    TableInfo.columns,
                                    IF gen_filing_id THEN Num(FilingIndex) ELSE None)
                      \subseteq DOMAIN TableInfo.columns

-----------------------------------------------------------------------------
(* Claims about XbrlDb (SpecDb). *)

DbTables == {<<DbKeys[k], kind>> : k \in 1..Len(DbKeys), kind \in {"duration", "instant"}}
Writes(table) == IF table \in DOMAIN store THEN store[table] ELSE <<>>
Count(s, x) == Cardinality({i \in 1..Len(s) : s[i] = x})
SameRows(s, t) == \A x \in SeqToSet(s) \cup SeqToSet(t) : Count(s, x) = Count(t, x)
\* The rows instance i holds for a table.
InstanceRows(i, table) ==
    LET k == CHOOSE j \in 1..Len(instances[i]) : instances[i][j][1] = table[1]
    IN IF table[2] = "duration" THEN instances[i][k][2][1] ELSE instances[i][k][2][2]
AllInstanceRows(table) ==
    concat([i \in 1..num_instances |-> InstanceRows(i, table)])
Processed == counter - 1
AllProcessed == Processed = num_instances

\* C1: once the last instance has been processed, the rows appended to each
\* table are exactly the multiset union of the instances' rows for it: each
\* row written once, none lost, none written by more than one flush.
C1_StoreIsUnionOfInstances ==
    AllProcessed =>
        \A table \in DbTables : SameRows(concat(Writes(table)), AllInstanceRows(table))

C9_AccumulationBounded ==
    \A k \in 1..Len(db_dfs) :
        /\ Len(db_dfs[k][2].duration) <= batch_size
        /\ Len(db_dfs[k][2].instant) <= batch_size
        /\ flushed => (db_dfs[k][2].duration = <<>> /\ db_dfs[k][2].instant = <<>>)

-----------------------------------------------------------------------------
(* Claims about extract (SpecExtract). *)

Finished == outcome \in {"done", "raised"}
ExtractTables == {Taxonomy[k].definition : k \in 1..Len(Taxonomy)}
\* The rows (without their index labels) written to a table so far.
WrittenRows(table) ==
    LET written == concat(Writes(table)) IN [n \in 1..Len(written) |-> written[n].row]
ResultOf(i) == process_instance(instance_paths[i], Tables(gen_filing_id), gen_filing_id)
\* The rows process_instance returns for instance i and a table; none when
\* it raises.
RowsOf(i, table) ==
    IF ResultOf(i).raised THEN <<>>
    ELSE LET rows == DictGet(ResultOf(i).dfs, table) IN [n \in 1..Len(rows) |-> rows[n].row]

\* C2: a failing instance does not abort the run: extract completes, and each
\* table holds the rows of every instance that did not fail and no others.
C2_FailuresAreSkipped ==
    (Finished /\ \E i \in 1..Len(instance_paths) : ResultOf(i).raised) =>
        /\ outcome = "done"
        /\ \A table \in ExtractTables :
              SameRows(WrittenRows(table),
                       concat([i \in 1..Len(instance_paths) |-> RowsOf(i, table)]))

RECURSIVE SerialRun(_, _)
\* What a run with one worker writes: the results taken one after the other
\* in submission order, from result k on, with dfs bound to last_dfs.
SerialRun(k, last_dfs) ==
    IF k > Len(instance_paths)
    THEN IF k = 1 THEN <<>> ELSE WriteTables(<<>>, last_dfs, 1)
    ELSE IF ResultOf(k).raised THEN <<>>
    ELSE SerialRun(k + 1, MergeResult(ResultOf(k).dfs))
SerialRows(table) ==
    LET st == SerialRun(1, EmptyDict)
        written == IF table \in DOMAIN st THEN concat(st[table]) ELSE <<>>
    IN [n \in 1..Len(written) |-> written[n].row]

====
